---- MODULE Spec2Model ----
(***************************************************************************)
(* Model of bedrock-passport's authentication glue (lib/passport.js) and   *)
(* of the session services that use it (login, password reset).            *)
(*                                                                         *)
(* Three specifications share the module:                                  *)
(*   Spec       requests going through ensureAuthenticated ->              *)
(*              optionallyAuthenticated -> checkAuthentication             *)
(*   SpecLogin  one call of api.login                                      *)
(*   SpecReset  one POST /session/password/reset                           *)
(***************************************************************************)
EXTENDS Naturals, Integers, Sequences, FiniteSets, TLC

VARIABLES
    enabled,      \* bedrock.config.passport.authentication.httpSignature.enabled
    reqUser,      \* req.user of each request
    reqUser0,     \* req.user of each request when the middleware was entered
    strategy,     \* what the bedrock.httpSignature strategy does for each request
    results,      \* async.auto's results object of each invocation
    pc,           \* position of each request's callback chain
    cb,           \* calls of checkAuthentication's callback(err, info)
    optNext,      \* calls of the next given to optionallyAuthenticated
    ensNext,      \* calls of the next given to ensureAuthenticated
    \* api.login
    lpc,          \* position of the login call
    password,     \* what the bedrock.password strategy does
    pending,      \* ids whose brIdentity.getIdentity has not called back
    failing,      \* ids whose lookup called back with an error, in that order
    identities,   \* choice.identities
    eachState,    \* async.forEach: completed count and whether it called back
    lcb,          \* calls of api.login's callback(err, user, choice)
    logIn,        \* calls of req.logIn
    \* POST /session/password/reset
    rpc,          \* position of the reset request
    identityIds,  \* the resolved ids not yet tried
    current,      \* the id whose setIdentityPassword is outstanding, 0 if none
    success,      \* the handler's success variable
    resolved,     \* the ids resolveIdentityIdentifier returned
    succeeded,    \* ids for which setIdentityPassword succeeded
    response      \* res.send / next calls of the request

authVars == <<enabled, reqUser, reqUser0, strategy, results, pc, cb, optNext, ensNext>>
loginVars == <<lpc, password, pending, failing, identities, eachState, lcb, logIn>>
resetVars == <<rpc, identityIds, current, success, resolved, succeeded, response>>
vars == <<authVars, loginVars, resetVars>>

(***************************************************************************)
(* Bounds.                                                                 *)
(***************************************************************************)
\* identity ids are 1..MaxId
MaxId == 4

Ids == 1..MaxId
\* the two concurrent requests
Reqs == {"reqA", "reqB"}

(***************************************************************************)
(* JavaScript values: false, undefined, and users {identity: {id: ...}} or *)
(* {identity: null}.  A user's id field 0 stands for identity === null.    *)
(***************************************************************************)
NullIdentity == 0
JsFalse == [t |-> "false", id |-> NullIdentity]
Undefined == [t |-> "undefined", id |-> NullIdentity]
Pending == [t |-> "pending", id |-> NullIdentity]
Errored == [t |-> "errored", id |-> NullIdentity]
User(i) == [t |-> "user", id |-> i]
Truthy(v) == v.t = "user"
Or(a, b) == IF Truthy(a) THEN a ELSE b

(***************************************************************************)
(* Errors.  cause is the message of the wrapped error, "" if none.         *)
(***************************************************************************)
NoError ==
    [name |-> "", public |-> FALSE, httpStatusCode |-> 0, message |-> "", cause |-> ""]
\* an error reported by a strategy or by the identity module (not a BedrockError)
ExternalError ==
    [name |-> "Error", public |-> FALSE, httpStatusCode |-> 0,
     message |-> "external failure", cause |-> ""]
MismatchError ==
    [name |-> "bedrock.website.PermissionDenied", public |-> TRUE, httpStatusCode |-> 400,
     message |-> "Request authentication mismatch.", cause |-> ""]
NotAuthenticatedError ==
    [name |-> "bedrock.website.PermissionDenied", public |-> TRUE, httpStatusCode |-> 400,
     message |-> "Not authenticated.", cause |-> ""]

\* mutant of AuthenticationError: the error is passed on as it came
AuthenticationErrorUnwrapped(err) == err

\* passport.js:82-87
AuthenticationError(err) ==
    [name |-> "bedrock.website.PermissionDenied", public |-> TRUE, httpStatusCode |-> 400,
     message |-> "Request authentication error.", cause |-> err.message]

(***************************************************************************)
(* checkAuthentication's tasks.                                            *)
(***************************************************************************)
\* passport's req.isAuthenticated(): req.user is truthy
IsAuthenticated(user) == Truthy(user)

\* passport.js:41-44, the value of the session task
SessionTask(user) == IF IsAuthenticated(user) THEN user ELSE JsFalse

\* passport.js:45-60, the (err, value) the httpSignature task calls back with
HttpSignatureTask(on, s) ==
    IF ~on THEN [err |-> NoError, value |-> JsFalse]
    ELSE CASE s.kind = "user" -> [err |-> NoError, value |-> User(s.id)]
           [] s.kind = "fail" -> [err |-> NoError, value |-> JsFalse]
           [] s.kind = "error" -> [err |-> ExternalError, value |-> Undefined]
           [] s.kind = "pass" -> [err |-> NoError, value |-> Undefined]
           [] OTHER -> [err |-> ExternalError, value |-> Undefined]

\* mutant of AuthTask: the equality check is missing
AuthTaskNoCheck(session, httpSignature) ==
    [outcome |-> "ok", err |-> NoError, value |-> Or(session, Or(httpSignature, JsFalse))]

\* passport.js:62-78.  Reading session.identity.id of a user whose identity
\* is null throws a TypeError out of the task.
AuthTask(session, httpSignature) ==
    IF Truthy(session) /\ Truthy(httpSignature)
    THEN IF session.id = NullIdentity
         THEN [outcome |-> "throw", err |-> NoError, value |-> Undefined]
         ELSE IF session.id # httpSignature.id
              THEN [outcome |-> "err", err |-> MismatchError, value |-> Undefined]
              ELSE [outcome |-> "ok", err |-> NoError, value |-> session]
    ELSE [outcome |-> "ok", err |-> NoError, value |-> Or(session, Or(httpSignature, JsFalse))]

\* passport.js:79-90, the (err, info) given to checkAuthentication's callback
FinalCallback(err, auth) ==
    IF err # NoError
    THEN [err |-> AuthenticationError(err), info |-> Undefined]
    ELSE [err |-> NoError, info |-> auth]

\* mutant of OptUser: req.user is assigned whatever the check found
OptUserAlways(user, err, info) == IF err # NoError THEN user ELSE info

\* passport.js:103-112, req.user after optionallyAuthenticated's callback
OptUser(user, err, info) ==
    IF err # NoError THEN user
    ELSE IF Truthy(info) THEN info ELSE user

\* mutant of EnsureNext: the req.user test is missing
EnsureNextOpen(err, user) == err

\* passport.js:125-140, the error ensureAuthenticated gives to next
EnsureNext(err, user) ==
    IF err # NoError THEN err
    ELSE IF Truthy(user) THEN NoError
    ELSE NotAuthenticatedError

\* mutant of Scope: one results object shared by all invocations
ScopeShared(r) == CHOOSE q \in Reqs : TRUE

\* passport.js:36-38: results, req and callback belong to the invocation
Scope(r) == r

(***************************************************************************)
(* State of the requests.                                                  *)
(***************************************************************************)
SessionUsers == {Undefined, User(NullIdentity)} \cup {User(i) : i \in Ids}
Strategies ==
    [kind : {"fail", "error", "pass", "nextErr"}, id : {NullIdentity}]
        \cup [kind : {"user"}, id : Ids]
NoCall == [count |-> 0, err |-> NoError, info |-> Undefined]
NoNext == [count |-> 0, err |-> NoError]

InitAuth ==
    /\ enabled \in BOOLEAN
    /\ reqUser \in [Reqs -> SessionUsers]
    /\ reqUser0 = reqUser
    /\ strategy \in [Reqs -> Strategies]
    /\ results = [r \in Reqs |-> [session |-> Pending, httpSignature |-> Pending]]
    /\ pc = [r \in Reqs |-> "idle"]
    /\ cb = [r \in Reqs |-> NoCall]
    /\ optNext = [r \in Reqs |-> NoNext]
    /\ ensNext = [r \in Reqs |-> NoNext]

\* passport.js:124-125, 102-103, 36-38: the middleware is entered and
\* async.auto starts the tasks
EnsureAuthenticated(r) ==
    /\ pc[r] = "idle"
    /\ pc' = [pc EXCEPT ![r] = "running"]
    /\ UNCHANGED <<enabled, reqUser, reqUser0, strategy, results, cb, optNext, ensNext>>

\* The synchronous chain from checkAuthentication's final callback through
\* optionallyAuthenticated's callback to ensureAuthenticated's callback.
Deliver(r, err, auth) ==
    LET f == FinalCallback(err, auth)
        user == OptUser(reqUser[r], f.err, f.info)
    IN /\ cb' = [cb EXCEPT ![r] = [count |-> @.count + 1, err |-> f.err, info |-> f.info]]
       /\ reqUser' = [reqUser EXCEPT ![r] = user]
       /\ optNext' = [optNext EXCEPT ![r] = [count |-> @.count + 1, err |-> f.err]]
       /\ ensNext' = [ensNext EXCEPT ![r] =
                         [count |-> @.count + 1, err |-> EnsureNext(f.err, user)]]
       /\ pc' = [pc EXCEPT ![r] = "done"]

\* async.auto: a task of invocation r calls back with (err, value)
TaskCallback(r, key, err, value) ==
    LET mine == [results[Scope(r)] EXCEPT ![key] = IF err # NoError THEN Errored ELSE value]
    IN /\ results' = [results EXCEPT ![Scope(r)] = mine]
       /\ IF pc[r] # "running"
          THEN UNCHANGED <<reqUser, pc, cb, optNext, ensNext>>
          ELSE IF err # NoError
          THEN Deliver(r, err, Undefined)
          ELSE IF mine.session.t \in {"pending", "errored"}
                  \/ mine.httpSignature.t \in {"pending", "errored"}
          THEN UNCHANGED <<reqUser, pc, cb, optNext, ensNext>>
          ELSE LET a == AuthTask(mine.session, mine.httpSignature)
               IN IF a.outcome = "throw"
                  THEN /\ pc' = [pc EXCEPT ![r] = "thrown"]
                       /\ UNCHANGED <<reqUser, cb, optNext, ensNext>>
                  ELSE Deliver(r, a.err, a.value)
       /\ UNCHANGED <<enabled, reqUser0, strategy>>

\* passport.js:41-44
SessionDone(r) ==
    /\ pc[r] # "idle"
    /\ results[r].session = Pending
    /\ TaskCallback(r, "session", NoError, SessionTask(reqUser[r]))

\* passport.js:45-60
HttpSignatureDone(r) ==
    /\ pc[r] # "idle"
    /\ results[r].httpSignature = Pending
    /\ LET h == HttpSignatureTask(enabled, strategy[r])
       IN TaskCallback(r, "httpSignature", h.err, h.value)

(***************************************************************************)
(* api.login (passport.js:155-195).                                        *)
(***************************************************************************)
InvalidLoginError ==
    [name |-> "bedrock.services.InvalidLogin", public |-> TRUE, httpStatusCode |-> 400,
     message |-> "The email address and password combination you entered is incorrect.",
     cause |-> ""]
\* the error of the failed lookup of id i
LookupError(i) ==
    [name |-> "Error", public |-> FALSE, httpStatusCode |-> 0,
     message |-> "lookup failed", cause |-> ToString(i)]
\* the error req.logIn may report
LogInError ==
    [name |-> "Error", public |-> FALSE, httpStatusCode |-> 0,
     message |-> "session failure", cause |-> ""]

\* the identity brIdentity.getIdentity finds for id i; id 0: no entry
Identity(i) == [id |-> i]
NoIdentity == Identity(NullIdentity)
Emails == {"a@example.com", "b@example.com"}

\* What passport.authenticate's callback (err, user, info) is called with:
\*   user     success(user, info)           (null, user, info)
\*   fail     fail(info), info a message    (null, false, {message})
\*   matches  fail(info), several matches   (null, false, {email, matches})
\*   error    error(err)                    (err)
\*   bare     fail() without a challenge    (null, false, undefined)
Passwords ==
    [kind : {"fail", "error", "bare"}, id : {NullIdentity}, matches : {{}}, email : {""}]
        \cup [kind : {"user"}, id : Ids, matches : {{}}, email : {""}]
        \cup [kind : {"matches"}, id : {NullIdentity}, matches : SUBSET Ids, email : Emails]

\* the choice argument of the callback: absent, or {email, identities}
NoChoice == [has |-> FALSE, email |-> "", identities |-> [i \in Ids |-> NoIdentity]]
Choice(email, found) == [has |-> TRUE, email |-> email, identities |-> found]
NoLogin == [count |-> 0, err |-> NoError, user |-> Undefined, choice |-> NoChoice]
NoLogIn == [count |-> 0, user |-> Undefined]

InitLogin ==
    /\ lpc = "idle"
    /\ password \in Passwords
    /\ pending = {}
    /\ failing = <<>>
    /\ identities = [i \in Ids |-> NoIdentity]
    /\ eachState = [completed |-> 0, calledBack |-> FALSE]
    /\ lcb = NoLogin
    /\ logIn = NoLogIn

\* passport.js:157-159: has info a matches property?  Reading it off an
\* undefined info throws a TypeError.
InfoMatches(p) ==
    CASE p.kind \in {"error", "bare"} -> "throw"
      [] p.kind = "matches" -> "yes"
      [] OTHER -> "no"

\* api.login's callback called with (err), (err, user) or (null, false, choice)
LoginCallback(err, user, choice) ==
    [count |-> lcb.count + 1, err |-> err, user |-> user, choice |-> choice]

\* passport.js:157, the test of user
UserFound(p) == p.kind = "user"

\* passport.js:156-194: passport calls the callback given to authenticate
Authenticate ==
    /\ lpc = "idle"
    /\ IF ~UserFound(password)
       THEN CASE InfoMatches(password) = "throw" ->
                   /\ lpc' = "thrown"
                   /\ UNCHANGED <<pending, eachState, lcb, logIn>>
              [] InfoMatches(password) = "yes" /\ password.matches = {} ->
                   \* async.forEach of an empty array calls back at once
                   /\ lpc' = "done"
                   /\ eachState' = [eachState EXCEPT !.calledBack = TRUE]
                   /\ lcb' = LoginCallback(NoError, JsFalse, Choice(password.email, identities))
                   /\ UNCHANGED <<pending, logIn>>
              [] InfoMatches(password) = "yes" /\ password.matches # {} ->
                   /\ lpc' = "lookups"
                   /\ pending' = password.matches
                   /\ UNCHANGED <<eachState, lcb, logIn>>
              [] OTHER ->
                   /\ lpc' = "done"
                   /\ lcb' = LoginCallback(InvalidLoginError, Undefined, NoChoice)
                   /\ UNCHANGED <<pending, eachState, logIn>>
       ELSE /\ lpc' = "logIn"
            /\ logIn' = [count |-> logIn.count + 1, user |-> User(password.id)]
            /\ UNCHANGED <<pending, eachState, lcb>>
    /\ UNCHANGED <<password, failing, identities>>

\* mutant of EachDone: a failed lookup counts as a completed one
EachDoneIgnoresErrors(err, each, n) ==
    IF each.calledBack THEN "none"
    ELSE IF each.completed + 1 >= n THEN "success"
    ELSE "none"

\* async.forEach's done(err) for an array of n items: which call of the
\* final function (passport.js:174-179) a lookup's callback causes
EachDone(err, each, n) ==
    IF each.calledBack THEN "none"
    ELSE IF err # NoError THEN "error"
    ELSE IF each.completed + 1 >= n THEN "success"
    ELSE "none"

\* async.forEach's completed counter after done(err)
EachCompleted(err, each) ==
    IF err # NoError THEN each.completed ELSE each.completed + 1

\* passport.js:166-179: brIdentity.getIdentity calls back for id
GetIdentityDone(id, ok) ==
    /\ id \in pending
    /\ pending' = pending \ {id}
    /\ failing' = IF ok THEN failing ELSE Append(failing, id)
    /\ identities' = IF ok THEN [identities EXCEPT ![id] = Identity(id)] ELSE identities
    /\ LET err == IF ok THEN NoError ELSE LookupError(id)
           d == EachDone(err, eachState, Cardinality(password.matches))
       IN /\ eachState' = [completed |-> EachCompleted(err, eachState),
                           calledBack |-> eachState.calledBack \/ d # "none"]
          /\ CASE d = "error" ->
                    /\ lcb' = LoginCallback(err, Undefined, NoChoice)
                    /\ lpc' = "done"
               [] d = "success" ->
                    /\ lcb' = LoginCallback(NoError, JsFalse,
                                            Choice(password.email, identities'))
                    /\ lpc' = "done"
               [] OTHER -> UNCHANGED <<lcb, lpc>>
    /\ UNCHANGED <<password, logIn>>

\* passport.js:191-193: req.logIn calls back
LogInDone(ok) ==
    /\ lpc = "logIn"
    /\ lpc' = "done"
    /\ lcb' = LoginCallback(IF ok THEN NoError ELSE LogInError, logIn.user, NoChoice)
    /\ UNCHANGED <<password, pending, failing, identities, eachState, logIn>>

(***************************************************************************)
(* POST /session/password/reset (unnamed/part_000:121-169).              *)
(***************************************************************************)
PasswordResetFailedError ==
    [name |-> "bedrock.services.PasswordResetFailed", public |-> TRUE,
     httpStatusCode |-> 403,
     message |-> "The password reset failed for the given identity.", cause |-> ""]
NoResponse == [sent |-> 0, status |-> 0, nexts |-> 0, err |-> NoError]

\* the sequences of distinct ids resolveIdentityIdentifier may return
RECURSIVE IdSeqs(_)
IdSeqs(n) ==
    IF n = 0 THEN {<<>>}
    ELSE LET shorter == IdSeqs(n - 1)
         IN shorter \cup {Append(q, i) : q \in {x \in shorter : Len(x) = n - 1},
                                         i \in Ids}
DistinctIdSeqs == {q \in IdSeqs(MaxId) : \A a, b \in 1..Len(q) : q[a] = q[b] => a = b}
Range(q) == {q[a] : a \in 1..Len(q)}

InitReset ==
    /\ rpc = "idle"
    /\ identityIds = <<>>
    /\ current = NullIdentity
    /\ success = 0
    /\ resolved = {}
    /\ succeeded = {}
    /\ response = NoResponse

\* part_000:149, the value passed on by async.until's final function
ResetOutcome(s) == s = 1

\* part_000:152-168: the last waterfall step and the final function
Respond(ok) ==
    IF ok
    THEN [sent |-> response.sent + 1, status |-> 204, nexts |-> response.nexts,
          err |-> NoError]
    ELSE [sent |-> response.sent, status |-> response.status,
          nexts |-> response.nexts + 1, err |-> PasswordResetFailedError]

\* part_000:133-150: async.until runs from the test on, with ids
\* left and success s, until a setIdentityPassword is outstanding or the
\* loop has ended
Until(ids, s) ==
    IF s # 0
    THEN /\ rpc' = "done"
         /\ response' = Respond(ResetOutcome(s))
         /\ success' = s
         /\ identityIds' = ids
         /\ current' = NullIdentity
    ELSE IF Len(ids) = 0
    THEN /\ rpc' = "done"
         /\ response' = Respond(ResetOutcome(0 - 1))
         /\ success' = 0 - 1
         /\ identityIds' = ids
         /\ current' = NullIdentity
    ELSE /\ rpc' = "setting"
         /\ response' = response
         /\ success' = s
         /\ identityIds' = Tail(ids)
         /\ current' = Head(ids)

\* part_000:127-131: resolveIdentityIdentifier calls back
Resolve(ok, ids) ==
    /\ rpc = "idle"
    /\ IF ok
       THEN /\ resolved' = Range(ids)
            /\ Until(ids, success)
       ELSE /\ rpc' = "done"
            /\ response' = [response EXCEPT !.nexts = @ + 1, !.err = ExternalError]
            /\ UNCHANGED <<identityIds, current, success, resolved>>
    /\ UNCHANGED succeeded

\* mutant of SuccessAfter: the error of setIdentityPassword is not looked at
SuccessAfterAlways(s, ok) == 1

\* part_000:142-146: success after setIdentityPassword called back
SuccessAfter(s, ok) == IF ok THEN 1 ELSE s

\* part_000:141-147: setIdentityPassword calls back
SetIdentityPasswordDone(ok) ==
    /\ rpc = "setting"
    /\ succeeded' = IF ok THEN succeeded \cup {current} ELSE succeeded
    /\ Until(identityIds, SuccessAfter(success, ok))
    /\ UNCHANGED resolved

(***************************************************************************)
(* Specifications.                                                         *)
(***************************************************************************)
\* the parts a specification does not run stay as constructed
IdleAuth ==
    /\ enabled = FALSE
    /\ reqUser = [r \in Reqs |-> Undefined]
    /\ reqUser0 = reqUser
    /\ strategy = [r \in Reqs |-> [kind |-> "fail", id |-> NullIdentity]]
    /\ results = [r \in Reqs |-> [session |-> Pending, httpSignature |-> Pending]]
    /\ pc = [r \in Reqs |-> "idle"]
    /\ cb = [r \in Reqs |-> NoCall]
    /\ optNext = [r \in Reqs |-> NoNext]
    /\ ensNext = [r \in Reqs |-> NoNext]
IdleLogin ==
    /\ InitLogin
    /\ password = [kind |-> "fail", id |-> NullIdentity, matches |-> {}, email |-> ""]

Init == InitAuth /\ IdleLogin /\ InitReset
Next ==
    \/ \E r \in Reqs : EnsureAuthenticated(r) /\ UNCHANGED <<loginVars, resetVars>>
    \/ \E r \in Reqs : SessionDone(r) /\ UNCHANGED <<loginVars, resetVars>>
    \/ \E r \in Reqs : HttpSignatureDone(r) /\ UNCHANGED <<loginVars, resetVars>>
Spec == Init /\ [][Next]_vars

InitL == IdleAuth /\ InitLogin /\ InitReset
NextLogin ==
    \/ Authenticate /\ UNCHANGED <<authVars, resetVars>>
    \/ \E id \in Ids, ok \in BOOLEAN : GetIdentityDone(id, ok) /\ UNCHANGED <<authVars, resetVars>>
    \/ \E ok \in BOOLEAN : LogInDone(ok) /\ UNCHANGED <<authVars, resetVars>>
SpecLogin == InitL /\ [][NextLogin]_vars

InitR == IdleAuth /\ IdleLogin /\ InitReset
NextReset ==
    \/ \E ok \in BOOLEAN, ids \in DistinctIdSeqs :
           Resolve(ok, ids) /\ UNCHANGED <<authVars, loginVars>>
    \/ \E ok \in BOOLEAN : SetIdentityPasswordDone(ok) /\ UNCHANGED <<authVars, loginVars>>
SpecReset == InitR /\ [][NextReset]_vars

(***************************************************************************)
(* Properties of checkAuthentication and its middleware (Spec).            *)
(***************************************************************************)
BothTasksDone(r) ==
    /\ results[r].session.t \notin {"pending", "errored"}
    /\ results[r].httpSignature.t \notin {"pending", "errored"}
\* both methods found a user with an identity and the identities differ
Mismatch(r) ==
    /\ Truthy(results[r].session) /\ Truthy(results[r].httpSignature)
    /\ results[r].session.id # NullIdentity
    /\ results[r].session.id # results[r].httpSignature.id
PermissionDenied(e) ==
    e.name = "bedrock.website.PermissionDenied" /\ e.public /\ e.httpStatusCode = 400

\* C1: when the session check and the HTTP-signature check both yield a
\* user and their identity ids differ, the callback is called with an error
\* and without auth info; no auth info is ever delivered while the two
\* methods name different identities.
C1_MismatchRejected ==
    \A r \in Reqs :
        /\ Mismatch(r) =>
              /\ cb[r].count = 1
              /\ cb[r].err # NoError
              /\ cb[r].info = Undefined
        /\ (/\ Truthy(results[r].session) /\ Truthy(results[r].httpSignature)
            /\ results[r].session.id # results[r].httpSignature.id)
              => ~Truthy(cb[r].info)

C1_Witness ==
    \E r \in Reqs : Mismatch(r) /\ pc[r] = "done" /\ PermissionDenied(cb[r].err)

\* the info C2 names: the session user, else the signature user, else false
ExpectedInfo(r) ==
    IF IsAuthenticated(reqUser0[r]) THEN reqUser0[r]
    ELSE IF Truthy(results[r].httpSignature) THEN results[r].httpSignature
    ELSE JsFalse

\* C2: when both checks have called back without an error and there is no
\* mismatch, the callback has been called with a null error and the session
\* user, else the signature user, else false.
C2_InfoDelivered ==
    \A r \in Reqs :
        (BothTasksDone(r) /\ ~Mismatch(r)) =>
            /\ cb[r].count = 1
            /\ cb[r].err = NoError
            /\ cb[r].info = ExpectedInfo(r)

\* C2 holds of every request but those with a session user whose identity
\* is null and a signature user (the TypeError of the auth task).
C2_ExceptNullIdentity ==
    \A r \in Reqs :
        (/\ BothTasksDone(r) /\ ~Mismatch(r)
         /\ ~(results[r].session = User(NullIdentity) /\ Truthy(results[r].httpSignature)))
           => /\ cb[r].count = 1
              /\ cb[r].err = NoError
              /\ cb[r].info = ExpectedInfo(r)

\* C3: every error given to checkAuthentication's callback is a public
\* bedrock.website.PermissionDenied error with httpStatusCode 400, given
\* without auth info.
C3_ErrorsArePermissionDenied ==
    \A r \in Reqs :
        cb[r].err # NoError => PermissionDenied(cb[r].err) /\ cb[r].info = Undefined

C3_Witness ==
    \E r, q \in Reqs :
        /\ cb[r].count = 1 /\ cb[r].err.cause = ExternalError.message
        /\ cb[q].count = 1 /\ cb[q].err.cause = MismatchError.message

C5_OptionallyAuthenticated ==
    \A r \in Reqs :
        /\ (cb[r].count > 0 /\ cb[r].err = NoError /\ Truthy(cb[r].info)) =>
              reqUser[r] = cb[r].info /\ optNext[r] = [count |-> 1, err |-> NoError]
        /\ (cb[r].count > 0 /\ cb[r].err = NoError /\ ~Truthy(cb[r].info)) =>
              reqUser[r] = reqUser0[r] /\ optNext[r] = [count |-> 1, err |-> NoError]
        /\ (cb[r].count > 0 /\ cb[r].err # NoError) =>
              reqUser[r] = reqUser0[r] /\ optNext[r] = [count |-> 1, err |-> cb[r].err]
        /\ cb[r].count = 0 => reqUser[r] = reqUser0[r] /\ optNext[r].count = 0

C5_Witness ==
    \E r, q \in Reqs :
        /\ cb[r].count = 1 /\ Truthy(cb[r].info) /\ ~Truthy(reqUser0[r])
        /\ reqUser[r] = cb[r].info
        /\ cb[q].count = 1 /\ cb[q].info = JsFalse /\ optNext[q].count = 1

\* what request r, run alone, ends with: a function of its own session, its
\* own signature check and the configuration
Solo(r) ==
    LET s == SessionTask(reqUser0[r])
        h == HttpSignatureTask(enabled, strategy[r])
        a == AuthTask(s, h.value)
        f == IF h.err # NoError THEN FinalCallback(h.err, Undefined)
             ELSE FinalCallback(a.err, a.value)
        thrown == h.err = NoError /\ a.outcome = "throw"
        user == IF thrown THEN reqUser0[r] ELSE OptUser(reqUser0[r], f.err, f.info)
    IN [cb |-> IF thrown THEN NoCall ELSE [count |-> 1, err |-> f.err, info |-> f.info],
        user |-> user]
RequestState(r) == <<reqUser[r], results[r], pc[r], cb[r], optNext[r], ensNext[r]>>
AllTasksDone(r) == results[r].session # Pending /\ results[r].httpSignature # Pending

\* C9: with two requests interleaved in any way, every step changes the
\* state of one request only, and what a request ends with (the callback's
\* error and info, its req.user) is what it ends with when run alone.
C9_RequestsIndependent ==
    /\ [](\A r \in Reqs :
            /\ AllTasksDone(r) => cb[r] = Solo(r).cb /\ reqUser[r] = Solo(r).user
            /\ results[r].session \in {Pending, SessionTask(reqUser0[r])})
    /\ [][\E r \in Reqs : \A q \in Reqs \ {r} : RequestState(q)' = RequestState(q)]_vars

C9_Witness ==
    \E r, q \in Reqs :
        /\ pc[r] = "done" /\ cb[r].err # NoError
        /\ pc[q] = "done" /\ Truthy(cb[q].info) /\ reqUser[q] # reqUser0[q]
        /\ reqUser0[r] # reqUser0[q]

\* C10: once the session check and the signature check have both called
\* back, checkAuthentication's callback has been called exactly once, and
\* never more than once.
C10_CallbackOnce ==
    \A r \in Reqs :
        /\ cb[r].count <= 1
        /\ AllTasksDone(r) => cb[r].count = 1

(***************************************************************************)
(* Properties of api.login (SpecLogin).                                    *)
(***************************************************************************)
MultipleMatches == password.kind = "matches" /\ lpc # "idle"

\* C6 as stated: in the multiple-matches case the callback is called only
\* after all lookups have completed.
C6_CalledAfterAllLookups ==
    (MultipleMatches /\ lcb.count > 0) => pending = {}

\* C6 amended: the callback is called exactly once and no session is
\* established; it is called with (null, false, choice), choice holding the
\* email and the looked-up identity of every matched id, only when every
\* lookup has completed without an error; the first lookup that fails makes
\* it receive that lookup's error and no choice, at once.
C6_MultipleMatches ==
    MultipleMatches =>
        /\ lcb.count <= 1
        /\ logIn.count = 0
        /\ (pending = {} \/ Len(failing) > 0) <=> lcb.count = 1
        /\ (lcb.count = 1 /\ Len(failing) = 0) =>
              /\ lcb.err = NoError
              /\ lcb.user = JsFalse
              /\ lcb.choice.has
              /\ lcb.choice.email = password.email
              /\ \A i \in Ids :
                    lcb.choice.identities[i] =
                        IF i \in password.matches THEN Identity(i) ELSE NoIdentity
        /\ Len(failing) > 0 =>
              /\ lcb.err = LookupError(failing[1])
              /\ ~lcb.choice.has
              /\ ~Truthy(lcb.user)

C6_Witness ==
    /\ MultipleMatches /\ Cardinality(password.matches) >= 2
    /\ lcb.count = 1 /\ lcb.choice.has
    /\ \A i \in password.matches : lcb.choice.identities[i] = Identity(i)

\* C7: req.logIn is called only for a user the strategy returned, at most
\* once and with that user; when the strategy returned no user and no
\* matches the callback has received the InvalidLogin error and req.logIn
\* has not been called.
C7_LoginOnlyWithUser ==
    /\ logIn.count > 0 =>
          password.kind = "user" /\ logIn.count = 1 /\ logIn.user = User(password.id)
    /\ (lpc # "idle" /\ password.kind \notin {"user", "matches"}) =>
          /\ lcb.count = 1
          /\ lcb.err = InvalidLoginError
          /\ logIn.count = 0

(***************************************************************************)
(* Properties of POST /session/password/reset (SpecReset).                 *)
(***************************************************************************)
ResolveSucceeded == rpc # "idle" /\ response.err # ExternalError

\* C8: when resolving succeeded and the request has ended, it was answered
\* 204 exactly if setIdentityPassword succeeded for one of the resolved
\* identities, and else the PasswordResetFailed error (403, public) was
\* forwarded; one of the two happened, once.
C8_PasswordReset ==
    /\ (ResolveSucceeded /\ rpc = "done") =>
          /\ succeeded \subseteq resolved
          /\ response.sent + response.nexts = 1
          /\ (response.sent = 1 /\ response.status = 204) <=> succeeded # {}
          /\ succeeded = {} =>
                /\ response.nexts = 1
                /\ response.err = PasswordResetFailedError
                /\ response.err.httpStatusCode = 403 /\ response.err.public
    /\ rpc # "done" => response.sent + response.nexts = 0

C8_Witness ==
    /\ rpc = "done" /\ response.status = 204
    /\ Cardinality(resolved) >= 3
    /\ Len(identityIds) = Cardinality(resolved) - 2

====
